---- MODULE Spec2Model ----
(***************************************************************************)
(* Model of app/request_handler.py: the coalescing queue                   *)
(* (ClientRequestQueue), the response cache (ResponseCache) and the        *)
(* coordinator (RequestHandler) with its producers (handle_request) and    *)
(* its single consumer loop (process_request_queue).                       *)
(*                                                                         *)
(* Scheduling: all coroutines run on one asyncio event loop.  A coroutine  *)
(* keeps the loop until it awaits something that really suspends:          *)
(* asyncio.sleep, Event.wait on an unset event, the backend call.          *)
(* put_or_exchange, get (when the queue is not empty), retrieve and update *)
(* contain no suspending await, so each action below is one run of a       *)
(* coroutine from one suspension point to the next.                        *)
(*                                                                         *)
(* ApiResponse objects are mutable and shared by reference (the cache, a   *)
(* unit's result slot and a caller may hold the same object), so they live *)
(* in a heap and are named by their index in it.                           *)
(***************************************************************************)
EXTENDS Integers, Sequences, FiniteSets, TLC

\* ---------------------------------------------------------------- bounds
\* How many handle_request calls are made, and the client identities and
\* request fingerprints they are drawn from.
MaxCalls == 3
Identities == {"A", "B"}
Fingerprints == {"F", "G"}

\* How many handle_request coroutines run at statement level in LockSpec.
MaxProducers == 2

\* ------------------------------------------------------------- constants
None == 0
BadRequest == 400
TooManyRequests == 429

Units == 1..MaxCalls

\* The coroutines of LockSpec: the consumer loop and the handle_request calls.
ConsumerTask == 0
ProducerTasks == 1..MaxProducers
Tasks == {ConsumerTask} \cup ProducerTasks

VARIABLES
    cnt,              \* RequestHandler.cnt; unit u is the ClientRequest with cnt = u
    id,               \* ClientRequest.id of each unit
    request_payload,  \* request_payload.key() of each unit
    api_response,     \* ClientRequest.api_response: a heap reference or None
    event,            \* ClientRequest.event is set
    _queue,           \* ClientRequestQueue._queue
    _client_items,    \* ClientRequestQueue._client_items
    _cache,           \* ResponseCache._cache: fingerprint -> heap reference
    heap,             \* the ApiResponse objects created so far
    pc,               \* each handle_request call: "none", "wait", "done"
    ret,              \* the reference each handle_request call returned
    ret_marked,       \* the cache-derived marker of that object when it was returned
    cpc,              \* the consumer loop: "get", "sleep", "generate", "crashed"
    client_request,   \* the consumer's local client_request (None between iterations)
    running,          \* the coroutine that keeps the event loop: "none" or "consumer"
    \* history of what the code did to each unit
    taken,            \* the unit was returned by ClientRequestQueue.get
    exchanged_by,     \* the unit whose put_or_exchange returned this one (None if none)
    resolved,         \* the consumer loop wrote the result slot (line 105)
    set_count,        \* how many times the result slot was written and event.set() called
    generate_calls,   \* how many times generator.generate was called with the unit's payload
    slot,             \* the queue slot (append number) the unit was stored under
    slots,            \* how many appends to _queue so far
    failed,           \* fingerprints whose last generate raised GeneratorException, no call since
    retry,            \* the unit is the first call for its fingerprint after such a failure
    \* the two locks, at statement level (LockSpec)
    queue_lock,       \* ClientRequestQueue._lock: the set of coroutines holding it
    cache_lock,       \* ResponseCache._lock: the set of coroutines holding it
    lpc               \* the statement each coroutine is at

unit_vars == <<cnt, id, request_payload, api_response, event>>
queue_vars == <<_queue, _client_items>>
cache_vars == <<_cache, heap>>
producer_vars == <<pc, ret, ret_marked>>
consumer_vars == <<cpc, client_request>>
history_vars == <<taken, exchanged_by, resolved, set_count, generate_calls, slot, slots,
                  failed, retry>>
lock_vars == <<queue_lock, cache_lock, lpc>>
vars == <<unit_vars, queue_vars, cache_vars, producer_vars, consumer_vars, running,
          history_vars, lock_vars>>

\* ------------------------------------------------------------ ApiResponse
\* generator.generate(request_payload) returned normally: a new response for
\* the payload with fingerprint k.
GeneratedResponse(k) ==
    [origin |-> "generate", status |-> None, text |-> "generated", key |-> k,
     is_cached_response |-> FALSE]

\* generator.generate_default_api_response(text, status)
GenerateDefaultApiResponse(text, status) ==
    [origin |-> "default", status |-> status, text |-> text, key |-> "",
     is_cached_response |-> FALSE]

\* str(e) of the GeneratorException the backend raised
ErrorText == "generator error"

\* api_response.set_is_cached_response(): marks the object itself
SetIsCachedResponse(h, r) ==
    [h EXCEPT ![r].is_cached_response = TRUE]

\* ------------------------------------------------------ ClientRequestQueue
\* put_or_exchange that returns the pending unit but leaves it in the map
PutOrExchangeKeepsOld(q, items, item, client_id) ==
    [exchanged_item |-> IF client_id \in DOMAIN items THEN items[client_id] ELSE None,
     queue |-> IF client_id \in DOMAIN items THEN q ELSE Append(q, client_id),
     client_items |-> IF client_id \in DOMAIN items
                      THEN items
                      ELSE [c \in DOMAIN items \cup {client_id} |->
                               IF c = client_id THEN item ELSE items[c]]]

\* put_or_exchange that moves a replaced identity to the tail of the queue
PutOrExchangeMovesToTail(q, items, item, client_id) ==
    [exchanged_item |-> IF client_id \in DOMAIN items THEN items[client_id] ELSE None,
     queue |-> Append(SelectSeq(q, LAMBDA c : c # client_id), client_id),
     client_items |-> [c \in DOMAIN items \cup {client_id} |->
                          IF c = client_id THEN item ELSE items[c]]]

\* put_or_exchange that appends the identity on every call
PutOrExchangeAlwaysAppends(q, items, item, client_id) ==
    [exchanged_item |-> IF client_id \in DOMAIN items THEN items[client_id] ELSE None,
     queue |-> Append(q, client_id),
     client_items |-> [c \in DOMAIN items \cup {client_id} |->
                          IF c = client_id THEN item ELSE items[c]]]

\* put_or_exchange that stores the item but reports no exchanged item
PutOrExchangeDropsOld(q, items, item, client_id) ==
    [exchanged_item |-> None,
     queue |-> IF client_id \in DOMAIN items THEN q ELSE Append(q, client_id),
     client_items |-> [c \in DOMAIN items \cup {client_id} |->
                          IF c = client_id THEN item ELSE items[c]]]

\* put_or_exchange(item): the new queue state and the exchanged item
PutOrExchange(q, items, item, client_id) ==
    [exchanged_item |-> IF client_id \in DOMAIN items THEN items[client_id] ELSE None,
     queue |-> IF client_id \in DOMAIN items THEN q ELSE Append(q, client_id),
     client_items |-> [c \in DOMAIN items \cup {client_id} |->
                          IF c = client_id THEN item ELSE items[c]]]

\* get() that leaves the unit in _client_items (a read instead of pop)
GetKeepsItem(q, items) ==
    LET client_id == Head(q)
    IN  [item |-> IF client_id \in DOMAIN items THEN items[client_id] ELSE None,
         queue |-> Tail(q),
         client_items |-> items]

\* get() that takes the newest identity (pop instead of popleft)
GetNewest(q, items) ==
    LET client_id == q[Len(q)]
    IN  [item |-> IF client_id \in DOMAIN items THEN items[client_id] ELSE None,
         queue |-> SubSeq(q, 1, Len(q) - 1),
         client_items |-> [c \in DOMAIN items \ {client_id} |-> items[c]]]

\* get() when the queue is not empty: popleft and pop.  item is None when
\* _client_items.pop raises KeyError.
Get(q, items) ==
    LET client_id == Head(q)
    IN  [item |-> IF client_id \in DOMAIN items THEN items[client_id] ELSE None,
         queue |-> Tail(q),
         client_items |-> [c \in DOMAIN items \ {client_id} |-> items[c]]]

\* ----------------------------------------------------------- ResponseCache
\* update that replaces the whole cache by the new entry
UpdateForgetsOthers(c, k, r) ==
    [f \in {k} |-> r]

\* update(request_payload, api_response)
Update(c, k, r) ==
    [f \in DOMAIN c \cup {k} |-> IF f = k THEN r ELSE c[f]]

\* retrieve that never finds an entry
RetrieveAlwaysMisses(c, h, k) ==
    [api_response |-> None, heap |-> h]

\* retrieve(request_payload): the returned reference (None on a miss) and
\* the heap after set_is_cached_response()
Retrieve(c, h, k) ==
    IF k \in DOMAIN c
    THEN [api_response |-> c[k], heap |-> SetIsCachedResponse(h, c[k])]
    ELSE [api_response |-> None, heap |-> h]

\* ------------------------------------------------------------------- Init
Init ==
    /\ cnt = 0
    /\ id = [u \in Units |-> ""]
    /\ request_payload = [u \in Units |-> ""]
    /\ api_response = [u \in Units |-> None]
    /\ event = [u \in Units |-> FALSE]
    /\ _queue = <<>>
    /\ _client_items = <<>>
    /\ _cache = <<>>
    /\ heap = <<>>
    /\ pc = [u \in Units |-> "none"]
    /\ ret = [u \in Units |-> None]
    /\ ret_marked = [u \in Units |-> FALSE]
    /\ cpc = "get"
    /\ client_request = None
    /\ running = "none"
    /\ taken = [u \in Units |-> FALSE]
    /\ exchanged_by = [u \in Units |-> None]
    /\ resolved = [u \in Units |-> FALSE]
    /\ set_count = [u \in Units |-> 0]
    /\ generate_calls = [u \in Units |-> 0]
    /\ slot = [u \in Units |-> 0]
    /\ slots = 0
    /\ failed = {}
    /\ retry = [u \in Units |-> FALSE]
    /\ queue_lock = {}
    /\ cache_lock = {}
    /\ lpc = [t \in Tasks |-> IF t = ConsumerTask THEN "get" ELSE "idle"]

\* ---------------------------------------------------------- handle_request
\* the replaced unit gets the 429 response but its event is not set
ExpireWithoutSet(old, u, h) ==
    /\ heap' = Append(h, GenerateDefaultApiResponse("", TooManyRequests))
    /\ api_response' = [api_response EXCEPT ![old] = Len(heap')]
    /\ exchanged_by' = [exchanged_by EXCEPT ![old] = u]
    /\ UNCHANGED <<event, set_count>>

\* Lines 122-125: the unit old, replaced by unit u, gets the 429 default
\* response and its event is set.
Expire(old, u, h) ==
    /\ heap' = Append(h, GenerateDefaultApiResponse("", TooManyRequests))
    /\ api_response' = [api_response EXCEPT ![old] = Len(heap')]
    /\ event' = [event EXCEPT ![old] = TRUE]
    /\ exchanged_by' = [exchanged_by EXCEPT ![old] = u]
    /\ set_count' = [set_count EXCEPT ![old] = @ + 1]

\* Lines 109-128 of one call, given what response_cache.retrieve returned:
\* on a hit the call returns at once; on a miss it submits its unit, rejects
\* the unit it replaced and suspends on its own event.
HandleRequestWith(client_id, k, cached) ==
    LET u == cnt + 1
        put == PutOrExchange(_queue, _client_items, u, client_id)
        old == put.exchanged_item
    IN  /\ cnt' = u
        /\ id' = [id EXCEPT ![u] = client_id]
        /\ request_payload' = [request_payload EXCEPT ![u] = k]
        /\ retry' = [retry EXCEPT ![u] = k \in failed]
        /\ failed' = failed \ {k}
        /\ IF cached.api_response # None
           THEN /\ heap' = cached.heap
                /\ pc' = [pc EXCEPT ![u] = "done"]
                /\ ret' = [ret EXCEPT ![u] = cached.api_response]
                /\ ret_marked' = [ret_marked EXCEPT ![u] =
                                     cached.heap[cached.api_response].is_cached_response]
                /\ UNCHANGED <<api_response, event, queue_vars, exchanged_by, set_count,
                               slot, slots>>
           ELSE /\ _queue' = put.queue
                /\ _client_items' = put.client_items
                /\ slots' = IF Len(put.queue) > Len(_queue) THEN slots + 1 ELSE slots
                /\ slot' = [slot EXCEPT ![u] = IF client_id \in DOMAIN _client_items
                                               THEN slot[_client_items[client_id]]
                                               ELSE slots + 1]
                /\ pc' = [pc EXCEPT ![u] = "wait"]
                /\ IF old # None
                   THEN Expire(old, u, cached.heap)
                   ELSE /\ heap' = cached.heap
                        /\ UNCHANGED <<api_response, event, exchanged_by, set_count>>
                /\ UNCHANGED <<ret, ret_marked>>
        /\ UNCHANGED <<_cache, consumer_vars, running, taken, resolved, generate_calls>>

\* handle_request that submits every call without looking at the cache
HandleRequestSkipsCache(client_id, k) ==
    /\ running = "none"
    /\ cnt < MaxCalls
    /\ HandleRequestWith(client_id, k, [api_response |-> None, heap |-> heap])
    /\ UNCHANGED lock_vars

\* A new handle_request call with identity client_id and fingerprint k.
HandleRequest(client_id, k) ==
    /\ running = "none"
    /\ cnt < MaxCalls
    /\ HandleRequestWith(client_id, k, Retrieve(_cache, heap, k))
    /\ UNCHANGED lock_vars

\* Lines 128-132: the call resumes once its event is set and returns the
\* object in its unit's result slot.
HandleRequestReturn(u) ==
    /\ running = "none"
    /\ pc[u] = "wait"
    /\ event[u]
    /\ pc' = [pc EXCEPT ![u] = "done"]
    /\ ret' = [ret EXCEPT ![u] = api_response[u]]
    /\ ret_marked' = [ret_marked EXCEPT ![u] =
                         api_response[u] # None /\ heap[api_response[u]].is_cached_response]
    /\ UNCHANGED <<unit_vars, queue_vars, cache_vars, consumer_vars, running, history_vars>>
    /\ UNCHANGED lock_vars

\* ---------------------------------------------------- process_request_queue
\* Lines 104-106 and the way back to queue.get(): the result slot is written,
\* the event set, and the loop goes on without suspending while the queue
\* holds an identity.
Complete(u, r, q) ==
    /\ api_response' = [api_response EXCEPT ![u] = r]
    /\ event' = [event EXCEPT ![u] = TRUE]
    /\ resolved' = [resolved EXCEPT ![u] = TRUE]
    /\ set_count' = [set_count EXCEPT ![u] = @ + 1]
    /\ cpc' = "get"
    /\ client_request' = None
    /\ running' = IF q # <<>> THEN "consumer" ELSE "none"

\* Lines 89-96: queue.get() returns a unit and the cache is looked up again.
\* On a hit the unit is completed with the cached object; on a miss the loop
\* suspends in asyncio.sleep(0.005).
ConsumerGet ==
    /\ cpc = "get"
    /\ _queue # <<>>
    /\ LET got == Get(_queue, _client_items)
           u == got.item
       IN  /\ _queue' = got.queue
           /\ _client_items' = got.client_items
           /\ IF u = None
              THEN /\ cpc' = "crashed"
                   /\ running' = "none"
                   /\ UNCHANGED <<api_response, event, heap, client_request, taken,
                                  resolved, set_count>>
              ELSE LET cached == Retrieve(_cache, heap, request_payload[u])
                   IN  /\ taken' = [taken EXCEPT ![u] = TRUE]
                       /\ heap' = cached.heap
                       /\ IF cached.api_response # None
                          THEN Complete(u, cached.api_response, got.queue)
                          ELSE /\ cpc' = "sleep"
                               /\ client_request' = u
                               /\ running' = "none"
                               /\ UNCHANGED <<api_response, event, resolved, set_count>>
    /\ UNCHANGED <<cnt, id, request_payload, _cache, producer_vars, exchanged_by,
                   generate_calls, slot, slots, failed, retry>>
    /\ UNCHANGED lock_vars

\* Line 97: the sleep is over and generator.generate is called.
ConsumerGenerate ==
    /\ cpc = "sleep"
    /\ cpc' = "generate"
    /\ generate_calls' = [generate_calls EXCEPT ![client_request] = @ + 1]
    /\ UNCHANGED <<unit_vars, queue_vars, cache_vars, producer_vars, client_request, running,
                   taken, exchanged_by, resolved, set_count, slot, slots, failed, retry>>
    /\ UNCHANGED lock_vars

\* Lines 97-98, 104-106: generate returned a response; it is cached and the
\* unit completed with it.
GenerateReturns ==
    /\ cpc = "generate"
    /\ heap' = Append(heap, GeneratedResponse(request_payload[client_request]))
    /\ _cache' = Update(_cache, request_payload[client_request], Len(heap'))
    /\ Complete(client_request, Len(heap'), _queue)
    /\ UNCHANGED <<cnt, id, request_payload, queue_vars, producer_vars, taken, exchanged_by,
                   generate_calls, slot, slots, failed, retry>>
    /\ UNCHANGED lock_vars

\* the except clause also stores the error response in the cache
GenerateRaisesCachesError ==
    /\ cpc = "generate"
    /\ heap' = Append(heap, GenerateDefaultApiResponse(ErrorText, BadRequest))
    /\ _cache' = Update(_cache, request_payload[client_request], Len(heap'))
    /\ failed' = failed \cup {request_payload[client_request]}
    /\ Complete(client_request, Len(heap'), _queue)
    /\ UNCHANGED <<cnt, id, request_payload, queue_vars, producer_vars, taken,
                   exchanged_by, generate_calls, slot, slots, retry>>
    /\ UNCHANGED lock_vars

\* Lines 101-106: generate raised GeneratorException; the unit is completed
\* with the default response carrying the error text and status 400.
GenerateRaisesGeneratorException ==
    /\ cpc = "generate"
    /\ heap' = Append(heap, GenerateDefaultApiResponse(ErrorText, BadRequest))
    /\ failed' = failed \cup {request_payload[client_request]}
    /\ Complete(client_request, Len(heap'), _queue)
    /\ UNCHANGED <<cnt, id, request_payload, queue_vars, _cache, producer_vars, taken,
                   exchanged_by, generate_calls, slot, slots, retry>>
    /\ UNCHANGED lock_vars

\* an except clause that catches every exception and completes the unit
GenerateRaisesOtherCaught ==
    /\ cpc = "generate"
    /\ heap' = Append(heap, GenerateDefaultApiResponse(ErrorText, BadRequest))
    /\ Complete(client_request, Len(heap'), _queue)
    /\ UNCHANGED <<cnt, id, request_payload, queue_vars, _cache, producer_vars, taken,
                   exchanged_by, generate_calls, slot, slots, failed, retry>>
    /\ UNCHANGED lock_vars

\* Line 97 with no matching except clause: any other exception leaves the
\* loop and ends the consumer coroutine.
GenerateRaisesOther ==
    /\ cpc = "generate"
    /\ cpc' = "crashed"
    /\ UNCHANGED <<unit_vars, queue_vars, cache_vars, producer_vars, client_request, running,
                   history_vars>>
    /\ UNCHANGED lock_vars

Consumer ==
    \/ ConsumerGet
    \/ ConsumerGenerate
    \/ GenerateReturns
    \/ GenerateRaisesGeneratorException
    \/ GenerateRaisesOther

Next ==
    \/ \E client_id \in Identities, k \in Fingerprints : HandleRequest(client_id, k)
    \/ \E u \in Units : HandleRequestReturn(u)
    \/ ConsumerGet
    \/ ConsumerGenerate
    \/ GenerateReturns
    \/ GenerateRaisesGeneratorException
    \/ GenerateRaisesOther

Spec == Init /\ [][Next]_vars

\* The event loop runs every coroutine that can run, and the backend call
\* ends (with a response or an exception).
FairSpec ==
    /\ Spec
    /\ WF_vars(Consumer)
    /\ \A u \in Units : WF_vars(HandleRequestReturn(u))

\* The event loop resumes every handle_request call whose event is set, and
\* a consumer run that has not reached an await goes on; the consumer is not
\* required to wake up from a sleep or from the backend call.
ProducerFairSpec ==
    /\ Spec
    /\ \A u \in Units : WF_vars(HandleRequestReturn(u))
    /\ WF_vars(running = "consumer" /\ ConsumerGet)

TypeOK ==
    /\ cnt \in 0..MaxCalls
    /\ running \in {"none", "consumer"}
    /\ cpc \in {"get", "sleep", "generate", "crashed"}
    /\ \A u \in Units : pc[u] \in {"none", "wait", "done"}

\* ------------------------------------------------- the locks, by statement
\* The same coroutines at the level of single statements, to follow the two
\* threading.Lock objects.  A coroutine is at one of these places:
\*   handle_request:  "idle" (not called or returned), "retrieve", "retrieve_cs",
\*                    "put", "put_cs", "wait" (line 128)
\*   consumer loop:   "get", "get_cs", "get_sleep" (line 58), "retrieve",
\*                    "retrieve_cs", "sleep" (line 96), "generate" (line 97),
\*                    "update", "update_cs", "crashed"
\* The tests on the data (the cache holds the key, the queue is empty) are
\* taken both ways, and the steps of different coroutines interleave freely,
\* as they would on a multi-threaded scheduler.
main_vars == <<unit_vars, queue_vars, cache_vars, producer_vars, consumer_vars, running,
               history_vars>>

Goto(t, l) == lpc' = [lpc EXCEPT ![t] = l]

\* The coroutine is at an await that suspends it, or is not running.
Suspended(t) == lpc[t] \in {"idle", "wait", "get_sleep", "sleep", "generate", "crashed"}

\* Lines 109-114: a handle_request call starts and calls retrieve.
LockCall(t) ==
    /\ t \in ProducerTasks /\ lpc[t] = "idle"
    /\ Goto(t, "retrieve")
    /\ UNCHANGED <<queue_lock, cache_lock, main_vars>>

\* Line 71: `with self._lock` of ResponseCache.retrieve.
LockRetrieveEnter(t) ==
    /\ lpc[t] = "retrieve" /\ cache_lock = {}
    /\ cache_lock' = {t}
    /\ Goto(t, "retrieve_cs")
    /\ UNCHANGED <<queue_lock, main_vars>>

\* Lines 72-76: the with block is left and retrieve returns.  handle_request
\* returns on a hit (line 119) and goes on to put_or_exchange on a miss; the
\* consumer completes the unit on a hit (lines 100-106) and sleeps on a miss.
LockRetrieveExit(t, hit) ==
    /\ lpc[t] = "retrieve_cs"
    /\ cache_lock' = cache_lock \ {t}
    /\ Goto(t, IF t = ConsumerTask
               THEN (IF hit THEN "get" ELSE "sleep")
               ELSE (IF hit THEN "idle" ELSE "put"))
    /\ UNCHANGED <<queue_lock, main_vars>>

\* Line 43: `with self._lock` of put_or_exchange.
LockPutEnter(t) ==
    /\ lpc[t] = "put" /\ queue_lock = {}
    /\ queue_lock' = {t}
    /\ Goto(t, "put_cs")
    /\ UNCHANGED <<cache_lock, main_vars>>

\* Lines 44-49, 122-128: the with block is left, the replaced unit rejected
\* and the call suspends on its event.
LockPutExit(t) ==
    /\ lpc[t] = "put_cs"
    /\ queue_lock' = queue_lock \ {t}
    /\ Goto(t, "wait")
    /\ UNCHANGED <<cache_lock, main_vars>>

\* Lines 128-132: the event was set and the call returns.
LockResume(t) ==
    /\ lpc[t] = "wait"
    /\ Goto(t, "idle")
    /\ UNCHANGED <<queue_lock, cache_lock, main_vars>>

\* Line 53: `with self._lock` of get.
LockGetEnter ==
    /\ lpc[ConsumerTask] = "get" /\ queue_lock = {}
    /\ queue_lock' = {ConsumerTask}
    /\ Goto(ConsumerTask, "get_cs")
    /\ UNCHANGED <<cache_lock, main_vars>>

\* get that sleeps inside the with block when the queue is empty
LockGetExitSleepsInside(nonempty) ==
    /\ lpc[ConsumerTask] = "get_cs"
    /\ queue_lock' = IF nonempty THEN queue_lock \ {ConsumerTask} ELSE queue_lock
    /\ Goto(ConsumerTask, IF nonempty THEN "retrieve" ELSE "get_sleep")
    /\ UNCHANGED <<cache_lock, main_vars>>

\* Lines 54-58: the with block is left; get returns the unit (and the loop
\* calls retrieve, line 93) or, the queue being empty, sleeps.
LockGetExit(nonempty) ==
    /\ lpc[ConsumerTask] = "get_cs"
    /\ queue_lock' = queue_lock \ {ConsumerTask}
    /\ Goto(ConsumerTask, IF nonempty THEN "retrieve" ELSE "get_sleep")
    /\ UNCHANGED <<cache_lock, main_vars>>

\* Line 58, then line 52: the polling sleep is over.
LockGetWake ==
    /\ lpc[ConsumerTask] = "get_sleep"
    /\ Goto(ConsumerTask, "get")
    /\ UNCHANGED <<queue_lock, cache_lock, main_vars>>

\* Lines 96-97: the sleep is over and the backend call awaited.
LockSleepWake ==
    /\ lpc[ConsumerTask] = "sleep"
    /\ Goto(ConsumerTask, "generate")
    /\ UNCHANGED <<queue_lock, cache_lock, main_vars>>

\* Lines 97-98: generate returned and update is called.
LockGenerateReturns ==
    /\ lpc[ConsumerTask] = "generate"
    /\ Goto(ConsumerTask, "update")
    /\ UNCHANGED <<queue_lock, cache_lock, main_vars>>

\* Lines 101-106: GeneratorException; the unit is completed, the loop goes on.
LockGenerateRaisesGeneratorException ==
    /\ lpc[ConsumerTask] = "generate"
    /\ Goto(ConsumerTask, "get")
    /\ UNCHANGED <<queue_lock, cache_lock, main_vars>>

\* Line 97: any other exception ends the loop.
LockGenerateRaisesOther ==
    /\ lpc[ConsumerTask] = "generate"
    /\ Goto(ConsumerTask, "crashed")
    /\ UNCHANGED <<queue_lock, cache_lock, main_vars>>

\* Line 67: `with self._lock` of ResponseCache.update.
LockUpdateEnter ==
    /\ lpc[ConsumerTask] = "update" /\ cache_lock = {}
    /\ cache_lock' = {ConsumerTask}
    /\ Goto(ConsumerTask, "update_cs")
    /\ UNCHANGED <<queue_lock, main_vars>>

\* Lines 68, 104-106: the with block is left, the unit completed, the loop
\* goes on.
LockUpdateExit ==
    /\ lpc[ConsumerTask] = "update_cs"
    /\ cache_lock' = cache_lock \ {ConsumerTask}
    /\ Goto(ConsumerTask, "get")
    /\ UNCHANGED <<queue_lock, main_vars>>

LockNext ==
    \/ \E t \in ProducerTasks : LockCall(t)
    \/ \E t \in Tasks : LockRetrieveEnter(t)
    \/ \E t \in Tasks, hit \in BOOLEAN : LockRetrieveExit(t, hit)
    \/ \E t \in ProducerTasks : LockPutEnter(t)
    \/ \E t \in ProducerTasks : LockPutExit(t)
    \/ \E t \in ProducerTasks : LockResume(t)
    \/ LockGetEnter
    \/ \E nonempty \in BOOLEAN : LockGetExit(nonempty)
    \/ LockGetWake
    \/ LockSleepWake
    \/ LockGenerateReturns
    \/ LockGenerateRaisesGeneratorException
    \/ LockGenerateRaisesOther
    \/ LockUpdateEnter
    \/ LockUpdateExit

LockSpec == Init /\ [][LockNext]_vars

\* ================================================================= claims

\* A caller was handed the object r as its response.
Rejection(r) == r # None /\ heap[r].origin = "default" /\ heap[r].status = TooManyRequests

\* C1: every handle_request call that created a unit and waits on it
\* eventually returns, and no unit is completed twice: exactly one response
\* is delivered to each caller under fair scheduling.
C1_ExactlyOneCompletion ==
    /\ \A u \in Units : (pc[u] = "wait") ~> (pc[u] = "done")
    /\ [](\A u \in Units : set_count[u] <= 1)

\* The unit was submitted to the queue (the call missed the cache).
Submitted(u) == u <= cnt /\ slot[u] # 0

\* Two submitted units of one identity stored under the same queue slot: the
\* later one was submitted before the consumer dequeued that identity.
Coalesced(u, v) == Submitted(u) /\ Submitted(v) /\ u < v /\ slot[u] = slot[v]

\* C2: of k >= 2 calls of one identity submitted before the consumer dequeues
\* that identity, each of the first k-1 is rejected with status 429 by the
\* very next submission (so in submission order) and returns that rejection;
\* the unit that is dequeued is the last one, it is completed by the consumer
\* loop only, and its caller returns that result, which is not a 429.
C2_CoalescingOutcome ==
    /\ \A u, v \in Units : Coalesced(u, v) =>
          /\ exchanged_by[u] \in (u + 1)..v
          /\ slot[exchanged_by[u]] = slot[u]
          /\ id[v] = id[u]
          /\ event[u] /\ set_count[u] = 1 /\ Rejection(api_response[u])
          /\ ~taken[u] /\ ~resolved[u]
          /\ pc[u] = "done" => ret[u] = api_response[u]
    /\ \A u \in Units : taken[u] =>
          /\ exchanged_by[u] = None
          /\ event[u] => resolved[u] /\ ~Rejection(api_response[u])
          /\ pc[u] = "done" => ret[u] = api_response[u] /\ ~Rejection(ret[u])

\* Three calls of one identity were coalesced: the first two returned the
\* rejection, the third returned what the backend generated.
C2_Witness ==
    /\ Coalesced(1, 2) /\ Coalesced(2, 3)
    /\ pc[1] = "done" /\ Rejection(ret[1])
    /\ pc[2] = "done" /\ Rejection(ret[2])
    /\ pc[3] = "done" /\ heap[ret[3]].origin = "generate"

\* The call returned on the cache-hit path (lines 115-119): it is done and
\* its unit was never submitted.
CacheHitCall(u) == u <= cnt /\ pc[u] = "done" /\ slot[u] = 0

\* C3: a handle_request call whose fingerprint is in the cache returns the
\* cached object, marked cache-derived, in the same step; that step leaves
\* the queue, the identity-to-unit map, every unit's result slot and event
\* and the backend call counts unchanged, and the call's unit is never
\* stored in the map, dequeued or passed to the backend.
C3_CacheHitBypass ==
    /\ [][\A k \in Fingerprints :
            (cnt' = cnt + 1 /\ request_payload'[cnt'] = k /\ k \in DOMAIN _cache) =>
               /\ pc'[cnt'] = "done"
               /\ ret'[cnt'] = _cache[k]
               /\ heap'[ret'[cnt']].is_cached_response /\ ret_marked'[cnt']
               /\ slot'[cnt'] = 0
               /\ UNCHANGED <<_queue, _client_items, _cache, api_response, event,
                              exchanged_by, generate_calls, consumer_vars>>]_vars
    /\ [](\A u \in Units : CacheHitCall(u) =>
            /\ ~taken[u] /\ generate_calls[u] = 0 /\ ~event[u]
            /\ \A c \in DOMAIN _client_items : _client_items[c] # u)

\* A call of an identity with a pending unit hit the cache and returned a
\* marked response while the pending unit stays in the map, not superseded.
C3_Witness ==
    \E u, v \in Units :
        /\ u < v /\ id[u] = id[v]
        /\ CacheHitCall(v) /\ ret_marked[v] /\ ret[v] = _cache[request_payload[v]]
        /\ id[u] \in DOMAIN _client_items /\ _client_items[id[u]] = u
        /\ exchanged_by[u] = None /\ ~event[u]

\* C4: identities are served in the order in which their current pending
\* slots were appended: when a unit of a later slot has been dequeued, every
\* unit of every earlier slot is already completed, the superseded ones by
\* their rejection and the remaining one dequeued and completed by the
\* consumer loop.
C4_FifoAcrossIdentities ==
    \A u, v \in Units :
        (Submitted(u) /\ Submitted(v) /\ slot[u] < slot[v] /\ taken[v]) =>
            /\ event[u] /\ set_count[u] = 1
            /\ exchanged_by[u] = None => taken[u] /\ resolved[u]

\* Identity A was appended, then B, then A re-submitted while waiting; the
\* consumer dequeued and completed A's latest unit and then dequeued B's.
C4_Witness ==
    /\ Coalesced(1, 3) /\ Submitted(2) /\ id[2] # id[1]
    /\ slot[1] < slot[2]
    /\ taken[3] /\ resolved[3] /\ taken[2]

\* The object r is the cache's entry for fingerprint k, made by a successful
\* backend call.
CachedFor(k, r) ==
    k \in DOMAIN _cache /\ _cache[k] = r /\ heap[r].origin = "generate"

\* C5 as claimed: a unit whose backend call raised GeneratorException is
\* completed with the default response (error text, status 400), and the
\* next handle_request call for that fingerprint is enqueued and, once
\* completed, has had the backend invoked for it.
C5_NextCallInvokesBackend ==
    /\ \A u \in Units : (resolved[u] /\ heap[api_response[u]].origin = "default") =>
          /\ heap[api_response[u]].status = BadRequest
          /\ heap[api_response[u]].text = ErrorText
          /\ event[u]
    /\ \A u \in Units : retry[u] =>
          /\ Submitted(u)
          /\ event[u] => generate_calls[u] >= 1

\* C5 (amended): the failing step completes the unit with the default
\* response carrying the error text and status 400, leaves the cache without
\* an entry for F and returns the loop to queue.get(); the next call for F
\* is enqueued unless a successful backend call for F has filled the cache
\* in the meantime, and when the consumer completes its unit the backend was
\* invoked for it once, unless the cache held an entry for F at dequeue time.
C5_BackendFailureIsolation ==
    /\ [][GenerateRaisesGeneratorException =>
            LET u == client_request
                k == request_payload[u]
                r == api_response'[u]
            IN  /\ event'[u] /\ resolved'[u] /\ ~event[u]
                /\ heap'[r].origin = "default"
                /\ heap'[r].status = BadRequest /\ heap'[r].text = ErrorText
                /\ k \notin DOMAIN _cache' /\ _cache' = _cache
                /\ cpc' = "get"
                /\ UNCHANGED <<_queue, _client_items>>]_vars
    /\ [](\A u \in Units : retry[u] =>
            /\ Submitted(u) \/ (CacheHitCall(u) /\ CachedFor(request_payload[u], ret[u]))
            /\ resolved[u] => \/ generate_calls[u] = 1
                              \/ /\ generate_calls[u] = 0
                                 /\ CachedFor(request_payload[u], api_response[u]))

\* A backend call for F failed and its unit got the 400 response; the next
\* call for F was enqueued with the cache still empty for F, dequeued, and
\* the backend was invoked again for it.
C5_Witness ==
    \E w, u \in Units :
        /\ w < u /\ request_payload[w] = request_payload[u]
        /\ resolved[w] /\ heap[api_response[w]].status = BadRequest
        /\ retry[u] /\ Submitted(u) /\ taken[u] /\ generate_calls[u] = 1
        /\ request_payload[u] \notin DOMAIN _cache

\* C6: every unit's result slot is written and its event set at most once,
\* either by a superseding producer (a 429 rejection, only for a unit that
\* was never dequeued) or by the consumer loop (only for a unit it dequeued,
\* never a 429), and never by both.
C6_SingleWriter ==
    \A u \in Units :
        /\ set_count[u] <= 1
        /\ event[u] <=> set_count[u] = 1
        /\ event[u] <=> (exchanged_by[u] # None \/ resolved[u])
        /\ ~(exchanged_by[u] # None /\ resolved[u])
        /\ exchanged_by[u] # None => ~taken[u] /\ Rejection(api_response[u])
        /\ resolved[u] => taken[u] /\ ~Rejection(api_response[u])
        /\ taken[u] => ~Rejection(api_response[u])

\* One unit was completed by a superseding producer and its successor by the
\* consumer loop.
C6_Witness ==
    \E u, v \in Units :
        /\ exchanged_by[u] = v /\ set_count[u] = 1
        /\ resolved[v] /\ set_count[v] = 1

\* The set of identities in the FIFO sequence.
QueuedIds == {_queue[i] : i \in 1..Len(_queue)}

\* C7: every identity is in _queue at most once, the identities in _queue
\* are the keys of _client_items, and the entry of an identity is its most
\* recently submitted unit that was not dequeued (and every submitted unit
\* neither dequeued nor replaced is that entry); get never finds an identity
\* without a unit (no KeyError ends the consumer loop).
C7_QueueInvariant ==
    /\ \A i, j \in 1..Len(_queue) : i # j => _queue[i] # _queue[j]
    /\ QueuedIds = DOMAIN _client_items
    /\ \A c \in DOMAIN _client_items :
          LET m == _client_items[c]
          IN  /\ m \in Units /\ Submitted(m) /\ id[m] = c /\ ~taken[m]
              /\ \A w \in Units : (Submitted(w) /\ id[w] = c /\ ~taken[w]) => w <= m
    /\ \A u \in Units : (Submitted(u) /\ ~taken[u] /\ exchanged_by[u] = None) =>
          id[u] \in DOMAIN _client_items /\ _client_items[id[u]] = u
    /\ ~(cpc = "crashed" /\ client_request = None)

\* After a get and two submissions of the same identity, the map holds the
\* later one and the identity is queued once.
C7_Witness ==
    \E t, u \in Units :
        /\ taken[t]
        /\ exchanged_by[u] # None /\ id[u] = id[t]
        /\ id[u] \in DOMAIN _client_items
        /\ _client_items[id[u]] = exchanged_by[u]
        /\ _queue = <<id[u]>>

\* C8: a cache lookup leaves the stored entry as it was: while the cache
\* maps F to the same object, that object (its cache-derived marker
\* included) does not change.
C8_RetrieveKeepsStoredEntry ==
    [][\A k \in DOMAIN _cache :
          (k \in DOMAIN _cache' /\ _cache'[k] = _cache[k]) =>
              heap'[_cache[k]] = heap[_cache[k]]]_vars

\* C9: the backend is invoked only for a unit that get returned; a unit that
\* put_or_exchange returned as replaced is never returned by get and never
\* reaches the backend; of the units submitted under one queue slot at most
\* one reaches the backend, at most once.
C9_SupersededNeverServiced ==
    /\ cpc \in {"sleep", "generate"} => client_request \in Units /\ taken[client_request]
    /\ \A u \in Units :
          /\ generate_calls[u] <= 1
          /\ generate_calls[u] >= 1 => taken[u]
          /\ exchanged_by[u] # None => ~taken[u] /\ generate_calls[u] = 0
    /\ \A u, v \in Units : Coalesced(u, v) => generate_calls[u] = 0

\* An identity submitted three times before it was dequeued; the backend was
\* invoked once, for the third unit.
C9_Witness ==
    /\ Coalesced(1, 2) /\ Coalesced(2, 3)
    /\ taken[3] /\ generate_calls[3] = 1
    /\ generate_calls[1] = 0 /\ generate_calls[2] = 0

\* C10: every cache entry is an object a successful backend call returned
\* for that very fingerprint (never a default response with status 400 or
\* 429), and no step removes a fingerprint from the cache.
C10_CacheContent ==
    /\ [](\A k \in DOMAIN _cache :
            /\ _cache[k] \in 1..Len(heap)
            /\ heap[_cache[k]].origin = "generate"
            /\ heap[_cache[k]].key = k
            /\ heap[_cache[k]].status \notin {BadRequest, TooManyRequests})
    /\ [][DOMAIN _cache \subseteq DOMAIN _cache']_vars

\* Both fingerprints were requested; one is cached, the other's backend call
\* failed, its unit got the 400 response and the cache has no entry for it.
C10_Witness ==
    \E u, v \in Units :
        /\ resolved[u] /\ CachedFor(request_payload[u], api_response[u])
        /\ resolved[v] /\ heap[api_response[v]].status = BadRequest
        /\ request_payload[v] \notin DOMAIN _cache

\* The unit was submitted and its result slot is still empty.
Outstanding(u) == Submitted(u) /\ ~event[u]

\* The outstanding units of one identity.
OutstandingOf(c) == {u \in Units : Outstanding(u) /\ id[u] = c}

\* C11 as claimed: at most one unit of an identity is not yet completed,
\* counting the pending one and the one the consumer is resolving.
C11_OneOutstandingPerIdentity ==
    \A c \in Identities : Cardinality(OutstandingOf(c)) <= 1

\* C11 (amended): of one identity at most one unit is pending in the queue
\* (it is the map entry), and besides it only the unit the consumer has
\* dequeued and is resolving can be outstanding: at most two in all.
C11_OnePendingPerIdentity ==
    \A c \in Identities :
        /\ Cardinality({u \in OutstandingOf(c) : ~taken[u]}) <= 1
        /\ \A u \in OutstandingOf(c) :
              \/ ~taken[u] /\ c \in DOMAIN _client_items /\ _client_items[c] = u
              \/ taken[u] /\ client_request = u /\ cpc # "get"
        /\ Cardinality(OutstandingOf(c)) <= 2

\* The consumer is in the backend call for a unit of an identity while a
\* newer unit of the same identity is pending in the queue.
C11_Witness ==
    \E u, v \in Units :
        /\ u < v /\ id[u] = id[v]
        /\ Outstanding(u) /\ taken[u] /\ cpc = "generate" /\ client_request = u
        /\ Outstanding(v) /\ ~taken[v] /\ v = _client_items[id[v]]

\* C12: a backend failure that is not GeneratorException is not caught: the
\* step ends the consumer loop and writes nothing; from then on the unit
\* being resolved keeps an empty result slot and an unset event, its
\* fingerprint is not in the cache, and the loop dequeues, resolves and
\* generates nothing more.
C12_UnexpectedFailureFatal ==
    /\ [][GenerateRaisesOther =>
            /\ cpc' = "crashed"
            /\ UNCHANGED <<api_response, event, _cache, heap, _queue, _client_items,
                           client_request>>]_vars
    /\ []((cpc = "crashed" /\ client_request # None) =>
            /\ taken[client_request]
            /\ api_response[client_request] = None
            /\ ~event[client_request] /\ set_count[client_request] = 0
            /\ pc[client_request] = "wait"
            /\ request_payload[client_request] \notin DOMAIN _cache)
    /\ [][cpc = "crashed" =>
            /\ cpc' = "crashed"
            /\ UNCHANGED <<taken, resolved, generate_calls, _cache, client_request>>
            /\ Len(_queue') >= Len(_queue)]_vars

\* The loop ended in a backend call; afterwards another identity submitted a
\* unit, which stays in the queue, and both callers wait.
C12_Witness ==
    /\ cpc = "crashed" /\ client_request # None
    /\ \E v \in Units :
          /\ v > client_request /\ Outstanding(v) /\ ~taken[v]
          /\ _queue = <<id[v]>> /\ pc[v] = "wait"

\* The objects successful backend calls returned for fingerprint k.
GeneratedFor(k) ==
    {r \in 1..Len(heap) : heap[r].origin = "generate" /\ heap[r].key = k}

\* C13: the backend is called only for a dequeued unit whose fingerprint is
\* not in the cache, the cache does not change between that lookup and the
\* end of the call, so the backend returns a response for a fingerprint at
\* most once and update never replaces an entry.
C13_SingleGenerationPerFingerprint ==
    /\ [](cpc \in {"sleep", "generate"} =>
            request_payload[client_request] \notin DOMAIN _cache)
    /\ [](\A k \in Fingerprints : Cardinality(GeneratedFor(k)) <= 1)
    /\ [][generate_calls' # generate_calls =>
            request_payload[client_request] \notin DOMAIN _cache]_vars
    /\ [][\A k \in DOMAIN _cache : k \in DOMAIN _cache' /\ _cache'[k] = _cache[k]]_vars

\* Two identities submitted the same fingerprint; the backend was called for
\* the first unit only and the second was completed with the cached object.
C13_Witness ==
    \E u, v \in Units :
        /\ id[u] # id[v] /\ request_payload[u] = request_payload[v]
        /\ resolved[u] /\ generate_calls[u] = 1
        /\ resolved[v] /\ generate_calls[v] = 0
        /\ CachedFor(request_payload[u], api_response[u])
        /\ api_response[v] = api_response[u]

\* C14: a put_or_exchange for an identity with a pending unit leaves _queue
\* and every other identity's map entry as they were, stores the new unit
\* under that identity and returns the previous one; for an identity without
\* a pending unit it appends the identity at the tail, stores the unit and
\* returns nothing.
C14_ReplacementKeepsPosition ==
    [][(cnt' = cnt + 1 /\ slot'[cnt'] # 0) =>
          LET u == cnt'
              c == id'[u]
          IN  /\ DOMAIN _client_items' = DOMAIN _client_items \cup {c}
              /\ _client_items'[c] = u
              /\ \A d \in DOMAIN _client_items \ {c} : _client_items'[d] = _client_items[d]
              /\ IF c \in DOMAIN _client_items
                 THEN /\ _queue' = _queue
                      /\ exchanged_by'[_client_items[c]] = u
                      /\ \A w \in Units \ {_client_items[c]} :
                            exchanged_by'[w] = exchanged_by[w]
                 ELSE /\ _queue' = Append(_queue, c)
                      /\ exchanged_by' = exchanged_by]_vars

\* Identity A, then B, were appended and A re-submitted: A is still at the
\* head, its entry is the third unit, B's entry is untouched.
C14_Witness ==
    /\ Coalesced(1, 3) /\ exchanged_by[1] = 3
    /\ Submitted(2) /\ id[2] # id[1]
    /\ _queue = <<id[1], id[2]>>
    /\ _client_items[id[1]] = 3 /\ _client_items[id[2]] = 2

\* C15: no coroutine holds the queue lock and the cache lock at once, and a
\* coroutine that is suspended (on its event, in the backend call, in either
\* sleep) or not running holds neither; each lock has at most one holder.
C15_LockDiscipline ==
    /\ Cardinality(queue_lock) <= 1 /\ Cardinality(cache_lock) <= 1
    /\ \A t \in Tasks :
          /\ ~(t \in queue_lock /\ t \in cache_lock)
          /\ Suspended(t) => t \notin queue_lock /\ t \notin cache_lock
          /\ t \in queue_lock <=> lpc[t] \in {"put_cs", "get_cs"}
          /\ t \in cache_lock <=> lpc[t] \in {"retrieve_cs", "update_cs"}

\* A producer is inside put_or_exchange's critical section while the
\* consumer is inside update's, and another producer waits on its event.
C15_Witness ==
    /\ queue_lock # {} /\ queue_lock \subseteq ProducerTasks
    /\ cache_lock = {ConsumerTask} /\ lpc[ConsumerTask] = "update_cs"
    /\ \E t \in ProducerTasks : lpc[t] = "wait"

\* C16: the step of the superseding call that replaces a unit also writes
\* the 429 response into it and sets its event, before that call waits, and
\* the consumer takes no part in it; so, whether or not the consumer ever
\* wakes up again, time and again every caller superseded so far has
\* returned its rejection (a unit once replaced stays replaced, so each
\* superseded caller eventually returns).
C16_RejectionWithoutConsumer ==
    /\ [][\A u \in Units : exchanged_by'[u] # exchanged_by[u] =>
            /\ exchanged_by'[u] = cnt' /\ cnt' = cnt + 1
            /\ event'[u] /\ ~event[u] /\ Rejection(api_response[u])'
            /\ pc'[cnt'] = "wait" /\ ~event'[cnt']
            /\ UNCHANGED <<consumer_vars, running>>]_vars
    /\ []<>(\A u \in Units :
               exchanged_by[u] # None => pc[u] = "done" /\ Rejection(ret[u]))

\* The consumer loop has ended; a caller superseded after that has returned
\* its rejection.
C16_Witness ==
    \E u \in Units :
        /\ cpc = "crashed" /\ client_request < u
        /\ exchanged_by[u] # None
        /\ pc[u] = "done" /\ Rejection(ret[u])

\* C17: a response is marked cache-derived when it is returned only if the
\* call got it from a cache lookup (its own on line 114, or the consumer's on
\* line 93 for its unit); the caller whose unit caused the backend call
\* returns an unmarked response.
C17_MarkerTruthful ==
    \A u \in Units : (pc[u] = "done" /\ ret_marked[u]) =>
        \/ CacheHitCall(u)
        \/ resolved[u] /\ generate_calls[u] = 0

====
